---- MODULE Spec2Model ----
(***************************************************************************)
(* Model of ConfFileMng (src/src/ConfFileMng/ConfFileMng.py): a            *)
(* configuration dictionary kept in memory, merged from and saved to a     *)
(* JSON file whose top-level value is an array holding one object.         *)
(*                                                                         *)
(* The debug flag only switches trace output on and is left out. Keys are  *)
(* strings, so the update in ConfSet cannot raise.                         *)
(*                                                                         *)
(* A Python value is a record [t |-> <type name>, v |-> <payload index>];  *)
(* a JSON value is a record of the same shape with JSON's type names.      *)
(* A dict reference is a record [exists, items]: exists = FALSE is None.   *)
(***************************************************************************)
EXTENDS Naturals, Sequences, FiniteSets, TLC

VARIABLES confFilePath, name, confDict, errorCode, file, last, saved

vars == <<confFilePath, name, confDict, errorCode, file, last, saved>>

(* ---------------------------------------------------------------- bounds *)

\* A file this program did not write holds an array of at most MaxElems
\* elements.
MaxElems == 2

(* ------------------------------------------------------ program constants *)

RESULT_SUCCESS == 0
RESULT_CONF_INIT == 1
RESULT_READ_ERROR == 2
RESULT_WRITE_ERROR == 3
RESULT_FILE_NOT_EXIST == 4
RESULT_KEY_NOT_FOUND == 5
RESULT_CONF_DICT_ERR == 6
RESULT_UNKNOWN_ERR == 7

\* ErrorStr[code] of the source is ErrorStr[code + 1] here (1-based sequences).
ErrorStr ==
  << "Suceed",
     "Conf file initialize error",
     "Conf file read error",
     "Conf file write error",
     "Conf file not exist",
     "Key not found in conf dictionary",
     "Conf dictionary not exist",
     "Unknown error" >>

(* ------------------------------------------------------------ the values *)

Keys == {"a", "b"}

\* confFilePath = None, or the path of the one configuration file.
NoPath == "None"
Paths == {NoPath, "./test_conf.json"}
Names == {"ConfFileMng"}

PyNone == [t |-> "NoneType", v |-> 0]

\* What callers store: strings, a tuple (serialised as an array, read back as
\* a list) and a set (not serialisable by json at all).
PyValues ==
  {[t |-> "str", v |-> 0], [t |-> "tuple", v |-> 0], [t |-> "set", v |-> 0]}

EmptyItems == [k \in {} |-> PyNone]

None == [exists |-> FALSE, items |-> EmptyItems]

Dict(items) == [exists |-> TRUE, items |-> items]

ItemsOver(V) == UNION {[D -> V] : D \in SUBSET Keys}

\* The mappings a caller passes as userConfDict, and None.
UserDicts == {None} \cup {Dict(m) : m \in ItemsOver(PyValues)}

\* Variant: "is not None" in place of Python truth, so {} counts as given.
TruthyNotNone(d) == d.exists

\* Python truth of a userConfDict argument: None and {} are falsy.
Truthy(d) == d.exists /\ DOMAIN d.items # {}

\* Variant: setdefault in place of update, so a key already set wins.
UpdateKeepOld(d, e) ==
  [k \in DOMAIN d \cup DOMAIN e |-> IF k \in DOMAIN d THEN d[k] ELSE e[k]]

\* dict.update: every key of e is set to e's value, the others are kept.
Update(d, e) ==
  [k \in DOMAIN d \cup DOMAIN e |-> IF k \in DOMAIN e THEN e[k] ELSE d[k]]

(* ------------------------------------------------- JSON, as json does it *)

JsonNull == [t |-> "null", v |-> 0]

\* json.dump's type table: str -> string, list and tuple -> array,
\* None -> null. A set has no entry: the encoder raises TypeError.
Encode(x) ==
  CASE x.t = "str" -> [t |-> "string", v |-> x.v]
    [] x.t \in {"list", "tuple"} -> [t |-> "array", v |-> x.v]
    [] OTHER -> JsonNull

\* json.load's type table: string -> str, array -> list, null -> None.
Decode(j) ==
  CASE j.t = "string" -> [t |-> "str", v |-> j.v]
    [] j.t = "array" -> [t |-> "list", v |-> j.v]
    [] OTHER -> PyNone

Serializable(x) == x.t \in {"str", "list", "tuple", "NoneType"}

EmptyMembers == [k \in {} |-> JsonNull]

\* An element of the top-level array: an object with its members, or null.
JsonObject(members) == [t |-> "object", members |-> members]
NullElem == [t |-> "null", members |-> EmptyMembers]

\* [self._confDict] as json.dump writes its one element.
EncodeDict(d) ==
  IF d.exists
    THEN JsonObject([k \in DOMAIN d.items |-> Encode(d.items[k])])
    ELSE NullElem

\* conf_read_json[0] as json.load built it.
DecodeElem(e) ==
  IF e.t = "object"
    THEN Dict([k \in DOMAIN e.members |-> Decode(e.members[k])])
    ELSE None

\* json.dump raises TypeError part-way when a value is not serialisable.
CanDump(d) == \A k \in DOMAIN d.items : Serializable(d.items[k])

(* -------------------------------------------------------------- the file *)

MissingFile ==
  [exists |-> FALSE, wellformed |-> FALSE, top |-> "none", elems |-> << >>]

\* Text that is not JSON, such as what an interrupted json.dump leaves.
MalformedFile ==
  [exists |-> TRUE, wellformed |-> FALSE, top |-> "none", elems |-> << >>]

\* A well-formed document: top is "array" (elems are its elements),
\* "object" (elems holds the object) or "number".
JsonFile(top, elems) ==
  [exists |-> TRUE, wellformed |-> TRUE, top |-> top, elems |-> elems]

\* Variant: the dictionary dumped bare, not wrapped in a list.
SavedFileBare(d) == JsonFile("object", <<EncodeDict(d)>>)

\* What ConfSave writes for dictionary d.
SavedFile(d) == JsonFile("array", <<EncodeDict(d)>>)

\* Objects found in files that this program did not write.
ForeignObjects ==
  {JsonObject(m) :
     m \in UNION {[D -> {[t |-> "string", v |-> 0]}] : D \in SUBSET Keys}}

\* The elements after the first of a longer array; ConfRead never reads them.
TailObject == JsonObject([k \in {"b"} |-> [t |-> "array", v |-> 0]])

ForeignArrays ==
  {<< >>} \cup
  {<<e>> \o [i \in 1 .. n - 1 |-> TailObject] :
     e \in ForeignObjects \cup {NullElem}, n \in 1 .. MaxElems}

\* The file before the program first runs: absent, or any text.
InitFiles ==
  {MissingFile, MalformedFile, JsonFile("number", << >>)}
    \cup {JsonFile("object", <<o>>) : o \in ForeignObjects}
    \cup {JsonFile("array", a) : a \in ForeignArrays}

\* The file is an array holding exactly one object.
WellShaped(f) ==
  f.exists /\ f.wellformed /\ f.top = "array"
    /\ Len(f.elems) = 1 /\ f.elems[1].t = "object"

(* ------------------------------------------------------------- the store *)

\* The record of the call just made: its arguments, the class of the
\* exception it raised ("none" when it returned), its return value, and the
\* dictionary and the file as the call found them.
Call(op, key, value, arg, save, exc, ret, dictBefore, fileBefore) ==
  [op |-> op, key |-> key, value |-> value, arg |-> arg, save |-> save,
   exc |-> exc, ret |-> ret, dictBefore |-> dictBefore,
   fileBefore |-> fileBefore]

\* Variant: the dictionary is left None.
NoDict == None

\* self._confDict = dict()
NewDict == Dict(EmptyItems)

\* self._confDict.update(m) on the dict object d.
DictUpdate(d, m) == [exists |-> d.exists, items |-> Update(d.items, m)]

\* __init__: an empty dictionary, updated from a truthy userConfDict.
InitialDict(userConfDict) ==
  IF Truthy(userConfDict) THEN DictUpdate(NewDict, userConfDict.items) ELSE NewDict

\* Variant: userConfDict is merged into the old dictionary.
ResetDictMerge(old, userConfDict) == DictUpdate(old, userConfDict.items)

\* ConfReset's new dictionary: the old one is dropped, a new one is
\* created and updated from userConfDict.
ResetDict(old, userConfDict) == DictUpdate(NewDict, userConfDict.items)

\* open(path, 'r') and json.load: the exception raised, or "none".
OpenAndLoad(path, f) ==
  CASE path = NoPath -> "TypeError"
    [] path # NoPath /\ ~f.exists -> "FileNotFoundError"
    [] path # NoPath /\ f.exists /\ ~f.wellformed -> "JSONDecodeError"
    [] OTHER -> "none"

\* conf_read_json[0]: the exception raised, or "none".
IndexZero(f) ==
  CASE f.top = "object" -> "KeyError"
    [] f.top = "number" -> "TypeError"
    [] f.top = "array" /\ Len(f.elems) = 0 -> "IndexError"
    [] OTHER -> "none"

\* Variant: no except clause for FileNotFoundError.
ReadErrorCodeGeneric(e) == RESULT_READ_ERROR

\* The error code ConfRead records for a failure of OpenAndLoad.
ReadErrorCode(e) ==
  IF e = "FileNotFoundError" THEN RESULT_FILE_NOT_EXIST ELSE RESULT_READ_ERROR

\* ConfSave on dictionary d: the file, error code and exception it leaves.
SaveResult(d, path, f) ==
  IF path = NoPath
    THEN [file |-> f, errorCode |-> RESULT_WRITE_ERROR, exc |-> "Exception"]
    ELSE IF ~CanDump(d)
      THEN [file |-> MalformedFile, errorCode |-> RESULT_WRITE_ERROR,
            exc |-> "Exception"]
      ELSE [file |-> SavedFile(d), errorCode |-> RESULT_SUCCESS, exc |-> "none"]

\* The mapping the file holds by a successful ConfSave (None when the file
\* is not what a successful ConfSave left).
SavedAfter(r, d) ==
  IF r.exc = "none" THEN d ELSE IF r.file = file THEN saved ELSE None

GetErrorStr ==
  LET errStr == IF errorCode + 1 \in DOMAIN ErrorStr
                  THEN ErrorStr[errorCode + 1]
                  ELSE ErrorStr[RESULT_UNKNOWN_ERR + 1]
  IN name \o " : " \o errStr

(* ----------------------------------------------------------------- Init *)

Init ==
  /\ confFilePath \in Paths
  /\ name \in Names
  /\ file \in InitFiles
  /\ \E userConfDict \in UserDicts :
       /\ confDict = InitialDict(userConfDict)
       /\ last = Call("__init__", "", PyNone, userConfDict, FALSE, "none",
                      PyNone, None, file)
  /\ errorCode = RESULT_SUCCESS
  /\ saved = None

(* -------------------------------------------------------------- actions *)

\* A new store object on a path; the one before it is dropped.
Construct(path, userConfDict, nm) ==
  /\ confFilePath' = path
  /\ name' = nm
  /\ errorCode' = RESULT_SUCCESS
  /\ confDict' = InitialDict(userConfDict)
  /\ last' = Call("__init__", "", PyNone, userConfDict, FALSE, "none",
                  PyNone, None, file)
  /\ UNCHANGED <<file, saved>>

ConfRead ==
  LET e == OpenAndLoad(confFilePath, file)
      i == IndexZero(file)
      conf_read_dict == DecodeElem(file.elems[1])
      done(code, exc, d) ==
        /\ errorCode' = code
        /\ confDict' = d
        /\ last' = Call("ConfRead", "", PyNone, None, FALSE, exc, PyNone,
                        confDict, file)
  IN /\ IF e # "none"
          THEN done(ReadErrorCode(e), "Exception", confDict)
          ELSE IF i # "none"
            THEN done(RESULT_SUCCESS, i, confDict)
            ELSE IF ~confDict.exists
              THEN done(RESULT_CONF_DICT_ERR, "ConfDictNotFoundError", confDict)
              ELSE IF ~conf_read_dict.exists
                THEN done(RESULT_SUCCESS, "TypeError", confDict)
                ELSE done(RESULT_SUCCESS, "none",
                          DictUpdate(confDict, conf_read_dict.items))
     /\ UNCHANGED <<confFilePath, name, file, saved>>

ConfSave ==
  LET r == SaveResult(confDict, confFilePath, file)
  IN /\ errorCode' = r.errorCode
     /\ file' = r.file
     /\ saved' = SavedAfter(r, confDict)
     /\ last' = Call("ConfSave", "", PyNone, None, FALSE, r.exc, PyNone,
                     confDict, file)
     /\ UNCHANGED <<confFilePath, name, confDict>>

\* Variant: the save flag is ignored (the defect fixed in v0.30).
ConfSetNoSave(key, value, save) ==
  /\ confDict.exists
  /\ confDict' = DictUpdate(confDict, key :> value)
  /\ errorCode' = RESULT_SUCCESS
  /\ last' = Call("ConfSet", key, value, None, save, "none", PyNone,
                  confDict, file)
  /\ UNCHANGED <<confFilePath, name, file, saved>>

ConfSet(key, value, save) ==
  LET d == DictUpdate(confDict, key :> value)
      r == SaveResult(d, confFilePath, file)
      call(exc) ==
        Call("ConfSet", key, value, None, save, exc, PyNone, confDict, file)
  IN /\ IF ~confDict.exists
          THEN /\ errorCode' = RESULT_CONF_DICT_ERR
               /\ last' = call("ConfDictNotFoundError")
               /\ UNCHANGED <<confDict, file, saved>>
          ELSE IF save
            THEN /\ confDict' = d
                 /\ errorCode' = r.errorCode
                 /\ file' = r.file
                 /\ saved' = SavedAfter(r, d)
                 /\ last' = call(r.exc)
            ELSE /\ confDict' = d
                 /\ errorCode' = RESULT_SUCCESS
                 /\ last' = call("none")
                 /\ UNCHANGED <<file, saved>>
     /\ UNCHANGED <<confFilePath, name>>

ConfReset(userConfDict, save) ==
  LET d == ResetDict(confDict, userConfDict)
      r == SaveResult(d, confFilePath, file)
      call(exc) ==
        Call("ConfReset", "", PyNone, userConfDict, save, exc, PyNone,
             confDict, file)
  IN /\ IF ~Truthy(userConfDict)
          THEN /\ last' = call("none")
               /\ UNCHANGED <<confDict, errorCode, file, saved>>
          ELSE IF save
            THEN /\ confDict' = d
                 /\ errorCode' = r.errorCode
                 /\ file' = r.file
                 /\ saved' = SavedAfter(r, d)
                 /\ last' = call(r.exc)
            ELSE /\ confDict' = d
                 /\ last' = call("none")
                 /\ UNCHANGED <<errorCode, file, saved>>
     /\ UNCHANGED <<confFilePath, name>>

\* Variant: None is returned for a missing key, as dict.get does.
ConfGetDefault(key) ==
  /\ confDict.exists
  /\ errorCode' = RESULT_SUCCESS
  /\ last' = Call("ConfGet", key, PyNone, None, FALSE, "none",
                  IF key \in DOMAIN confDict.items
                    THEN confDict.items[key] ELSE PyNone,
                  confDict, file)
  /\ UNCHANGED <<confFilePath, name, confDict, file, saved>>

ConfGet(key) ==
  LET call(exc, ret) ==
        Call("ConfGet", key, PyNone, None, FALSE, exc, ret, confDict, file)
  IN /\ IF ~confDict.exists
          THEN /\ errorCode' = RESULT_CONF_DICT_ERR
               /\ last' = call("ConfDictNotFoundError", PyNone)
          ELSE IF key \notin DOMAIN confDict.items
            THEN /\ errorCode' = RESULT_KEY_NOT_FOUND
                 /\ last' = call("Exception", PyNone)
            ELSE /\ errorCode' = RESULT_SUCCESS
                 /\ last' = call("none", confDict.items[key])
     /\ UNCHANGED <<confFilePath, name, confDict, file, saved>>

Next ==
  \/ \E path \in Paths, userConfDict \in UserDicts, nm \in Names :
       Construct(path, userConfDict, nm)
  \/ ConfRead
  \/ ConfSave
  \/ \E key \in Keys, value \in PyValues, save \in BOOLEAN :
       ConfSet(key, value, save)
  \/ \E userConfDict \in UserDicts, save \in BOOLEAN :
       ConfReset(userConfDict, save)
  \/ \E key \in Keys : ConfGet(key)

Spec == Init /\ [][Next]_vars

(* --------------------------------------------------------------- claims *)

\* Values that JSON represents: what json.load can give back.
JSONRepresentable(items) ==
  \A k \in DOMAIN items : items[k].t \in {"str", "list", "NoneType"}

NonEmptyMapping(d) == d.exists /\ DOMAIN d.items # {}

EmptyOrAbsent(d) == ~d.exists \/ DOMAIN d.items = {}

\* The mapping held by the one object of a well-shaped file, as Python reads it.
FileMapping(f) == DecodeElem(f.elems[1]).items

Describe(code) == name \o " : " \o ErrorStr[code + 1]

\* C1: after a successful ConfSave of a mapping of JSON-representable values,
\* ConfRead on a store with an empty dictionary on the same path succeeds and
\* leaves the dictionary equal to the saved mapping, key by key.
RoundTrip ==
  (/\ last.op = "ConfRead"
   /\ last.dictBefore = Dict(EmptyItems)
   /\ confFilePath # NoPath
   /\ saved.exists /\ JSONRepresentable(saved.items))
  => /\ last.exc = "none"
     /\ confDict.exists
     /\ DOMAIN confDict.items = DOMAIN saved.items
     /\ \A K \in DOMAIN saved.items : confDict.items[K] = saved.items[K]

RoundTripWitness ==
  /\ last.op = "ConfRead" /\ last.exc = "none"
  /\ last.dictBefore = Dict(EmptyItems)
  /\ saved.exists /\ JSONRepresentable(saved.items)
  /\ DOMAIN saved.items = Keys
  /\ \E k \in Keys : saved.items[k].t = "str"
  /\ \E k \in Keys : saved.items[k].t = "list"
  /\ confDict = saved

\* C2: a successful ConfRead of a well-shaped file holding mapping F leaves the
\* dictionary D overridden by F: F's keys with F's values, D's other keys with
\* D's values, and no other key.
LoadMerge ==
  (last.op = "ConfRead" /\ last.exc = "none" /\ WellShaped(last.fileBefore))
  => LET D == last.dictBefore.items
         F == FileMapping(last.fileBefore)
     IN /\ DOMAIN confDict.items = DOMAIN D \cup DOMAIN F
        /\ \A k \in DOMAIN F : confDict.items[k] = F[k]
        /\ \A k \in DOMAIN D \ DOMAIN F : confDict.items[k] = D[k]

LoadMergeWitness ==
  /\ last.op = "ConfRead" /\ last.exc = "none" /\ WellShaped(last.fileBefore)
  /\ LET D == last.dictBefore.items
         F == FileMapping(last.fileBefore)
     IN /\ \E k \in DOMAIN D \cap DOMAIN F :
             D[k] # F[k] /\ confDict.items[k] = F[k]
        /\ \E k \in DOMAIN D \ DOMAIN F : confDict.items[k] = D[k]

\* C3: ConfRead on a path that names no existing file raises, records
\* RESULT_FILE_NOT_EXIST and leaves the dictionary as it was.
MissingFileRead ==
  (last.op = "ConfRead" /\ confFilePath # NoPath /\ ~last.fileBefore.exists)
  => /\ last.exc # "none"
     /\ errorCode = RESULT_FILE_NOT_EXIST
     /\ confDict = last.dictBefore

MissingFileReadWitness ==
  /\ last.op = "ConfRead" /\ confFilePath # NoPath /\ ~last.fileBefore.exists
  /\ last.exc = "Exception"
  /\ DOMAIN confDict.items = Keys

\* C4: ConfRead of a well-formed JSON file whose top-level value is not an
\* array of exactly one object raises, records RESULT_READ_ERROR and merges
\* nothing.
WrongShapeIsReadError ==
  (/\ last.op = "ConfRead"
   /\ confFilePath # NoPath
   /\ last.fileBefore.exists /\ last.fileBefore.wellformed
   /\ ~WellShaped(last.fileBefore))
  => /\ last.exc # "none"
     /\ errorCode = RESULT_READ_ERROR
     /\ confDict = last.dictBefore

WrongShapeWitness ==
  /\ last.op = "ConfRead" /\ last.exc = "none"
  /\ last.fileBefore.top = "array" /\ Len(last.fileBefore.elems) > 1
  /\ confDict # last.dictBefore

ResetReplaces ==
  (last.op = "ConfReset" /\ NonEmptyMapping(last.arg))
  => /\ confDict.exists
     /\ DOMAIN confDict.items = DOMAIN last.arg.items
     /\ \A k \in DOMAIN last.arg.items : confDict.items[k] = last.arg.items[k]

ResetReplacesWitness ==
  /\ last.op = "ConfReset" /\ NonEmptyMapping(last.arg)
  /\ last.dictBefore.exists
  /\ \E k \in DOMAIN last.dictBefore.items : k \notin DOMAIN last.arg.items
  /\ confDict.items = last.arg.items

\* C7: after an operation (ConfRead, ConfSave, ConfSet, ConfGet, ConfReset)
\* that returned without raising, GetErrorStr is the store's name with the
\* description of RESULT_SUCCESS, whatever failed before it.
LastResultDescribed ==
  (/\ last.op \in {"ConfRead", "ConfSave", "ConfSet", "ConfGet", "ConfReset"}
   /\ last.exc = "none")
  => GetErrorStr = Describe(RESULT_SUCCESS)

LastResultWitness ==
  /\ last.op = "ConfReset" /\ NonEmptyMapping(last.arg) /\ ~last.save
  /\ last.exc = "none"
  /\ GetErrorStr = Describe(RESULT_KEY_NOT_FOUND)

\* C8: ConfSet(K, V, save) sets K to V in the dictionary; with save it then
\* does what ConfSave does on the updated dictionary, and when that fails
\* the call raises, RESULT_WRITE_ERROR is recorded and K still maps to V;
\* without save the file is not touched.
SetWithPersist ==
  (last.op = "ConfSet" /\ last.dictBefore.exists)
  => LET D == last.dictBefore.items
         d == Dict([k \in DOMAIN D \cup {last.key} |->
                      IF k = last.key THEN last.value ELSE D[k]])
         r == SaveResult(d, confFilePath, last.fileBefore)
     IN /\ confDict = d
        /\ last.save =>
             file = r.file /\ errorCode = r.errorCode /\ last.exc = r.exc
        /\ (last.save /\ last.exc # "none") =>
             errorCode = RESULT_WRITE_ERROR
               /\ confDict.items[last.key] = last.value
        /\ ~last.save => file = last.fileBefore /\ last.exc = "none"

SetWithPersistWitness ==
  /\ last.op = "ConfSet" /\ last.save /\ last.exc = "Exception"
  /\ errorCode = RESULT_WRITE_ERROR
  /\ last.key \notin DOMAIN last.dictBefore.items
  /\ confDict.items[last.key] = last.value
  /\ file # last.fileBefore

\* C9: ConfReset with an empty or absent mapping changes neither the
\* dictionary, nor the file, nor the error code, with save or without.
EmptyResetNoOp ==
  [][(last'.op = "ConfReset" /\ EmptyOrAbsent(last'.arg))
       => (confDict' = confDict /\ file' = file /\ errorCode' = errorCode)]_vars

EmptyResetNoOpWitness ==
  /\ last.op = "ConfReset" /\ last.arg = Dict(EmptyItems) /\ last.save
  /\ errorCode = RESULT_KEY_NOT_FOUND
  /\ confDict = last.dictBefore /\ DOMAIN confDict.items # {}
  /\ confFilePath # NoPath /\ ~file.exists

\* C10: the dictionary is never None, and no operation records
\* RESULT_CONF_DICT_ERR or raises ConfDictNotFoundError.
DictNeverNone ==
  /\ confDict.exists
  /\ errorCode # RESULT_CONF_DICT_ERR
  /\ last.exc # "ConfDictNotFoundError"

DictNeverNoneWitness ==
  /\ last.op = "ConfReset" /\ NonEmptyMapping(last.arg)
  /\ last.save /\ last.exc = "Exception"
  /\ confDict.exists /\ confDict # last.dictBefore

====
